---- MODULE Spec2Model ----
(***************************************************************************)
(* Live departure detection of appV11+discordv2uiview.py: the 15 second    *)
(* poll task fetch_train_data, the announcement ledger ANNOUNCED_TRAINS    *)
(* with its two hour eviction (clean_announced_trains), and the events     *)
(* the poll task hands to the Discord channel.                             *)
(* Beside it the station directory: initialize_stations_cache and its      *)
(* readers get_station_code and station_autocomplete.                      *)
(*                                                                         *)
(* Time is counted in whole seconds.  One step of the poll task runs from  *)
(* one suspension point (await) of the coroutine to the next.              *)
(***************************************************************************)
EXTENDS Integers, Sequences, FiniteSets, TLC

\* ------------------------------------------------------------------ bounds
MaxAdvances == 1        \* clock movements in a run of Spec
MaxLongAdvances == 3    \* clock movements in a run of SpecTime
MaxRegularAdvances == 4 \* clock movements in a run of SpecRegular
MaxResp == 2            \* longest departure list one fetch returns
MaxStations == 2        \* most records stations.json holds
MaxBig == 26            \* records of the large stations.json
MaxFacilities == 4      \* facilities the train detail answer lists
MaxDepartures == 16     \* most departures a page reply holds
MaxBoards == 3          \* boards the commands start
MaxMessages == 2        \* messages the board passes send
MaxAlerts == 2          \* alerts config.json holds

\* ------------------------------------------------------- program constants
TTL == 7200             \* timedelta(hours=2)
PastMargin == 30        \* timedelta(minutes=0.5)
FutureMargin == 15      \* timedelta(seconds=15)
ChoiceLimit == 25       \* the [:25] and the >= 25 of station_autocomplete

\* ------------------------------------------------------- the outside world
\* plannedDateTime strings of the feed and the instant strptime gives them;
\* a string outside the domain makes strptime raise
TimeOf == ("t15" :> 15) @@ ("t16" :> 16)

\* departure records of the feed: A carries a journeyId, B does not,
\* C carries a plannedDateTime that does not parse
TrainA == [journeyId |-> "J1", longCategoryName |-> "Intercity", operatorName |-> "NS",
           number |-> "11", plannedDateTime |-> "t16"]
TrainB == [journeyId |-> "", longCategoryName |-> "Sprinter", operatorName |-> "NS",
           number |-> "12", plannedDateTime |-> "t15"]
TrainC == [journeyId |-> "J3", longCategoryName |-> "Intercity", operatorName |-> "NS",
           number |-> "13", plannedDateTime |-> "bad"]
Trains == {TrainA, TrainB, TrainC}

\* the departures of the feed in the order it lists them
Feed == <<TrainC, TrainA, TrainB>>

RECURSIVE Pick(_, _)
Pick(S, i) ==
  IF i > Len(Feed) THEN <<>>
  ELSE (IF i \in S THEN <<Feed[i]>> ELSE <<>>) \o Pick(S, i + 1)

\* what data.get("payload").get("departures") can be: some of the feed's
\* departures, in the feed's order
Responses == {Pick(S, 1) : S \in {T \in SUBSET (1..Len(Feed)) : Cardinality(T) <= MaxResp}}

\* info.get("type", "Unknown") of the train detail answer
DetailTypes == {"ICM"}

\* what the pass reads from the train detail answer of a train of type ty
Info(ty) ==
  [train_type |-> ty, crowd_info |-> "LOW", train_length |-> 100,
   facilities |-> <<"WIFI">>, bakken_count |-> 4]

\* what the pass uses when the train detail answer is not a 200
NoInfo ==
  [train_type |-> "Unknown", crowd_info |-> "Unknown", train_length |-> 0,
   facilities |-> <<>>, bakken_count |-> 1]

\* the faciliteiten of the materieeldelen of a train detail answer, one after
\* the other
FacilityNames == {"wifi", "table", "quiet"}
FacilityLists == UNION {[1..n -> FacilityNames] : n \in 0..MaxFacilities}

\* channels bot.get_channel finds
KnownChannels == {"1", "2"}

\* a channel configuration that watches two stations; user u1 is in both
\* lists
WatchTwo ==
  [id |-> "1", stations |-> <<"UT", "ASD">>,
   alerts |-> <<[train_number |-> "11", station |-> "ut", user_id |-> "u1"],
                [train_number |-> "12", station |-> "ASD", user_id |-> "u2"]>>,
   train_type_notifications |-> <<[train_type |-> "icm", user_id |-> "u1"],
                                  [train_type |-> "unknown", user_id |-> "u2"]>>]

\* config.json "channels", an ordered mapping channel id -> configuration:
\* three channels that watch one station, the second unknown to the bot
FullConfig ==
  << [WatchTwo EXCEPT !.stations = <<"UT">>],
     [id |-> "9", stations |-> <<"UT">>, alerts |-> <<>>,
      train_type_notifications |-> <<>>],
     [id |-> "2", stations |-> <<"UT">>, alerts |-> <<>>,
      train_type_notifications |-> <<>>] >>

\* one channel that watches two stations
OneChannel == <<WatchTwo>>

\* str.upper() on the strings the matcher compares
Upper == ("ut" :> "UT") @@ ("UT" :> "UT") @@ ("ASD" :> "ASD") @@
         ("icm" :> "ICM") @@ ("ICM" :> "ICM") @@ ("Unknown" :> "UNKNOWN") @@
         ("unknown" :> "UNKNOWN")

\* --------------------------------------------------------- stations.json
\* strings of the station directory are sequences of characters; ord() of
\* the characters in use, in the order Python compares them
Ord == (" " :> 32) @@ ("A" :> 65) @@ ("C" :> 67) @@ ("O" :> 79) @@ ("T" :> 84) @@
       ("U" :> 85) @@ ("X" :> 88) @@ ("a" :> 97) @@ ("c" :> 99) @@ ("o" :> 111) @@
       ("t" :> 116) @@ ("u" :> 117) @@ ("x" :> 120)

\* str.lower() of one character
LowerChar == (" " :> " ") @@ ("A" :> "a") @@ ("C" :> "c") @@ ("O" :> "o") @@
             ("T" :> "t") @@ ("U" :> "u") @@ ("X" :> "x") @@ ("a" :> "a") @@
             ("c" :> "c") @@ ("o" :> "o") @@ ("t" :> "t") @@ ("u" :> "u") @@
             ("x" :> "x")

\* str.upper() of one character
UpperChar == (" " :> " ") @@ ("A" :> "A") @@ ("C" :> "C") @@ ("O" :> "O") @@
             ("T" :> "T") @@ ("U" :> "U") @@ ("X" :> "X") @@ ("a" :> "A") @@
             ("c" :> "C") @@ ("o" :> "O") @@ ("t" :> "T") @@ ("u" :> "U") @@
             ("x" :> "X")

\* str.upper() of a string of the station directory
UpperName(name) == [i \in 1..Len(name) |-> UpperChar[name[i]]]

\* str.lower()
RECURSIVE Lower(_)
Lower(name) ==
  IF name = <<>> THEN <<>> ELSE <<LowerChar[Head(name)]>> \o Lower(Tail(name))

\* records of stations.json; a missing or empty field is <<>>.  "Ut C" and
\* "Ut O" share the middle name "Ut", the third record has a long name of one
\* character and the synonym "ut", the fourth has no code
StationUT == [code |-> <<"U", "T">>,
              namen |-> [lang |-> <<"U", "t", " ", "C">>, middel |-> <<"U", "t">>,
                         kort |-> <<"U", "t">>],
              synoniemen |-> << <<"U", "c">> >>]
StationUO == [code |-> <<"U", "O">>,
              namen |-> [lang |-> <<"U", "t", " ", "O">>, middel |-> <<"U", "t">>,
                         kort |-> <<>>],
              synoniemen |-> <<>>]
StationA  == [code |-> <<"A">>,
              namen |-> [lang |-> <<"A">>, middel |-> <<>>, kort |-> <<>>],
              synoniemen |-> << <<"u", "t">>, <<"U", "O">> >>]
StationX  == [code |-> <<>>,
              namen |-> [lang |-> <<"X", " ", "C">>, middel |-> <<>>, kort |-> <<>>],
              synoniemen |-> <<>>]
StationRecords == {StationUT, StationUO, StationA, StationX}

\* what load_stations can return: the records of the file in the file's
\* order, or [] when the file cannot be read
StationFiles ==
  UNION {{f \in [1..n -> StationRecords] : \A i, j \in 1..n : f[i] = f[j] => i = j}
           : n \in 0..MaxStations}

\* a record with the long name of "Ut C" under a code of its own, and the
\* files that can hold it
StationUC == [code |-> <<"U", "C">>,
              namen |-> [lang |-> <<"U", "t", " ", "C">>, middel |-> <<>>, kort |-> <<>>],
              synoniemen |-> <<>>]
NameRecords == {StationUT, StationUC, StationA, StationX}
NameFiles ==
  UNION {{f \in [1..n -> NameRecords] : \A i, j \in 1..n : f[i] = f[j] => i = j}
           : n \in 0..MaxStations}

\* a large stations.json: record i is named "U" and two lowercase letters
Letters == <<"a", "c", "o", "t", "u", "x">>
Capitals == <<"A", "C", "O", "T", "U", "X">>

BigRecord(i) ==
  LET x == ((i - 1) \div 6) + 1
      y == ((i - 1) % 6) + 1
  IN [code |-> <<"U", Capitals[x], Capitals[y]>>,
      namen |-> [lang |-> <<"U", Letters[x], Letters[y]>>, middel |-> <<>>, kort |-> <<>>],
      synoniemen |-> <<>>]

BigFile == [i \in 1..MaxBig |-> BigRecord(i)]

\* the same records last to first, and starting from the eighth
Reversed(f) == [i \in 1..Len(f) |-> f[Len(f) + 1 - i]]
Rotated(f) == [i \in 1..Len(f) |-> f[((i + 6) % Len(f)) + 1]]

\* what load_stations can return when stations.json is large, or holds the
\* two "Ut" stations
ChoiceFiles ==
  {BigFile, Reversed(BigFile), Rotated(BigFile),
   <<StationUT, StationUO>>, <<StationUO, StationUT>>}

\* what users have typed when autocomplete is asked of these directories
ChoicePrefixes ==
  {<<>>, <<"u">>, <<"U">>, <<"U", "t">>, <<"u", "a">>, <<"U", "C">>, <<"a">>, <<"T">>,
   <<"t", " ">>, <<"x", "x">>, <<"U", "t", " ", "c">>, <<"o">>, <<"u", "t", "x">>}

\* the names users type
StationQueries ==
  {<<"u", "t">>, <<"U", "T">>, <<"U", "t">>, <<"u", "T">>, <<"U", "c">>, <<"u", "C">>,
   <<"u", "o">>, <<"U", "O">>, <<"A">>, <<"a">>, <<"x">>, <<"U", "t", " ", "C">>,
   <<"u", "T", " ", "c">>}

\* what users have typed when autocomplete is asked
StationPrefixes ==
  {<<>>, <<"u">>, <<"U", "t">>, <<"t">>, <<"C">>, <<"t", " ">>, <<"x">>}

VARIABLES
  clock,      \* wall clock, seconds
  left,       \* clock movements the run still has
  config,     \* config.json "channels"
  ledger,     \* ANNOUNCED_TRAINS
  loop,       \* the tasks.loop of fetch_train_data: "sleeping", "running", "dead"
  pc,         \* await the running pass is suspended at
  now,        \* local `now` of the pass
  chs,        \* channel configurations still to do, the current one first
  sts,        \* stations of the current channel still to do, the current one first
  todo,       \* departures of the current station still to do
  cur,        \* the departure being announced
  msgs,       \* mentions of the current departure still to send
  events,     \* calls made to the channel, in order
  judged,     \* what the last step decided about the departures it looked at
  result,     \* how the last pass ended: "none", "completed", "aborted"
  printed,    \* the "Error getting data for station" line of the last step
  TRAIN_NUMBERS_CACHE,  \* train numbers the passes have read
  TRAIN_TYPES_CACHE,    \* train types the train detail answers have given
  STATIONS_CACHE,   \* lowercase name -> code
  STATIONS_LIST,    \* long names, sorted
  word_prefix_map,  \* prefix of a word of a long name -> long names
  stations,   \* what load_stations returned to the last initialize_stations_cache
  answer,     \* what the last get_station_code or station_autocomplete returned
  paginator,  \* the DeparturesPaginator of the last page reply
  message,    \* what the message of that reply shows
  active_departure_boards,  \* channel id -> board dict, in insertion order
  board_data, \* the board dicts ever made: station and message_id (0 is None)
  board_cur,  \* channel_id, station_name and message_id of the board pass
  board_loop, \* the tasks.loop of departure_board_updater
  board_pc,   \* await the running board pass is suspended at
  board_todo, \* items of the pass's copy still to do, the current one first
  next_id     \* messages the board pass has sent

pollVars == <<clock, left, config, ledger, loop, pc, now, chs, sts, todo, cur,
              msgs, events, judged, result, printed,
              TRAIN_NUMBERS_CACHE, TRAIN_TYPES_CACHE>>

stationVars == <<STATIONS_CACHE, STATIONS_LIST, word_prefix_map, stations, answer>>

uiVars == <<paginator, message>>

boardVars == <<active_departure_boards, board_data, board_loop, board_pc,
               board_todo, board_cur, next_id>>

vars == <<pollVars, stationVars, uiVars, boardVars>>

\* no /listdepartures has replied with a page yet
NoView ==
  [built |-> FALSE, departures |-> <<>>, page_size |-> 0, current_page |-> 0,
   total_pages |-> 0, previous_disabled |-> FALSE, next_disabled |-> FALSE,
   finished |-> FALSE]

NoMessage == [page |-> 0, of |-> 0, fields |-> <<>>,
              previous_disabled |-> FALSE, next_disabled |-> FALSE]

\* the board pass is at no channel
NoBoard == [channel_id |-> "", station_name |-> "", message_id |-> 0]

\* a step that prints no such line
NoLine == <<>>

\* print(f"Error getting data for station {station}: {response.status}")
ErrorLine(station) == <<"Error getting data for station", station>>

NoCur == [key |-> "", journey |-> "", station |-> "", train_number |-> "", train_type |-> ""]

\* ------------------------------------------------------------ pure helpers
\* what strptime gives when it raises
ParseError == -1

\* a strptime that reads a malformed string as the epoch
StrptimeLenient(departure_str) ==
  IF departure_str \in DOMAIN TimeOf THEN TimeOf[departure_str] ELSE 0

\* datetime.strptime(departure_str, "%Y-%m-%dT%H:%M:%S%z")
Strptime(departure_str) ==
  IF departure_str \in DOMAIN TimeOf THEN TimeOf[departure_str] ELSE ParseError

\* a synthesized journey_id that also carries the time of the pass
\* a test that finds no journeyId
PresentNever(journey_id) == FALSE

\* the test `if not journey_id` on train.get('journeyId', ''), negated
Present(journey_id) == journey_id # ""

JourneyIdPerPass(train) ==
  IF train.journeyId # ""
  THEN train.journeyId
  ELSE train.longCategoryName \o ":" \o train.operatorName \o ":" \o
       train.number \o ":" \o train.plannedDateTime \o ":" \o ToString(now)

\* journey_id of a departure record: the feed's journeyId, else synthesized
JourneyId(train) ==
  IF Present(train.journeyId)
  THEN train.journeyId
  ELSE train.longCategoryName \o ":" \o train.operatorName \o ":" \o
       train.number \o ":" \o train.plannedDateTime

\* a key that names the station being polled
ChannelJourneyIdPerStation(channel_id, journey_id) ==
  channel_id \o ":" \o Head(sts) \o ":" \o journey_id

\* a key without the channel
ChannelJourneyIdShared(channel_id, journey_id) == journey_id

\* channel_journey_id = f"{channel_id}:{journey_id}"
ChannelJourneyId(channel_id, journey_id) == channel_id \o ":" \o journey_id

\* a window without the test of line 624
WindowAdmitsPast(t, departure_time) == ~(t - departure_time > PastMargin)

\* a window with exclusive boundaries
WindowAdmitsStrict(t, departure_time) ==
  /\ ~(t - departure_time >= PastMargin)
  /\ ~(departure_time - t >= FutureMargin)

\* the two `continue`s of the time window
WindowAdmits(t, departure_time) ==
  /\ ~(t - departure_time > PastMargin)
  /\ ~(departure_time - t > FutureMargin)

\* an eviction that follows the train's schedule: gone once the train has left
ExpiredBySchedule(t, info) == t - info.departure_time > 0

\* an eviction that already removes at exactly two hours
ExpiredInclusive(t, info) == t - info.timestamp >= TTL

\* the test `now - announcement_time > timedelta(hours=2)`
Expired(t, info) == t - info.timestamp > TTL

\* an eviction that removes nothing
CleanNothing(led, t) == led

\* clean_announced_trains: the ledger without its expired entries
Clean(led, t) ==
  LET keep == {k \in DOMAIN led : ~Expired(t, led[k])}
  IN [k \in keep |-> led[k]]

\* a presence test that never finds the key
AlreadyAnnouncedNever(key, led) == FALSE

\* `channel_journey_id in ANNOUNCED_TRAINS`
AlreadyAnnounced(key, led) == key \in DOMAIN led

\* a pass that leaves the entry to be written after the announcement
ClaimLater(led, key, t, dep) == led

\* ANNOUNCED_TRAINS[channel_journey_id] = {...}
Claim(led, key, t, dep) ==
  [k \in DOMAIN led \cup {key} |->
     IF k = key THEN [timestamp |-> t, departure_time |-> dep] ELSE led[k]]

\* a filter that reads the time when the departure is examined
AdmittedWhenExamined(t, dep) == dep # ParseError /\ WindowAdmits(clock, dep)

\* a filter that lets every departure with a readable time through
AdmittedAlways(t, dep) == dep # ParseError

\* the departure gets past the three `continue`s of lines 616-625
Admitted(t, dep) == dep # ParseError /\ WindowAdmits(t, dep)

\* what the departures loop decided about one departure
Verdict(key, t, dep, ok) ==
  [key |-> key, at |-> t, parsed |-> dep # ParseError, departure_time |-> dep,
   admitted |-> ok]

\* the synchronous part of the departures loop: from the head of td up to
\* the first departure that is claimed (hit), or to the end of the list
RECURSIVE Scan(_, _, _, _, _)
Scan(td, channel_id, t, led, jd) ==
  IF td = <<>>
  THEN [hit |-> FALSE, todo |-> <<>>, ledger |-> led, judged |-> jd]
  ELSE
    LET train == Head(td)
        key   == ChannelJourneyId(channel_id, JourneyId(train))
        dep   == Strptime(train.plannedDateTime)
        ok    == Admitted(t, dep)
        jd1   == jd \cup {Verdict(key, t, dep, ok)}
    IN IF dep = ParseError
       THEN Scan(Tail(td), channel_id, t, led, jd1)
       ELSE IF ~ok
       THEN Scan(Tail(td), channel_id, t, led, jd1)
       ELSE IF AlreadyAnnounced(key, led)
       THEN Scan(Tail(td), channel_id, t, led, jd1)
       ELSE [hit |-> TRUE, train |-> train, key |-> key, todo |-> Tail(td),
             ledger |-> Claim(led, key, t, dep), judged |-> jd1]

\* the channels loop up to the next channel that is found and has stations
RECURSIVE SkipChannels(_)
SkipChannels(cs) ==
  IF cs = <<>> THEN <<>>
  ELSE IF Head(cs).id \notin KnownChannels \/ Head(cs).stations = <<>>
       THEN SkipChannels(Tail(cs))
       ELSE cs

\* the test of the type notifications loop
TypeMatches(n, c) == Upper[n.train_type] = Upper[c.train_type]

\* the test of the alerts loop
AlertMatches(a, c) ==
  a.train_number = c.train_number /\ Upper[a.station] = Upper[c.station]

\* the mentions a claimed departure produces: type notifications, then alerts
Mentions(cfg, c) ==
  LET tn == SelectSeq(cfg.train_type_notifications, LAMBDA n : TypeMatches(n, c))
      al == SelectSeq(cfg.alerts, LAMBDA a : AlertMatches(a, c))
  IN [i \in 1..Len(tn) |-> [user_id |-> tn[i].user_id, list |-> "type"]] \o
     [i \in 1..Len(al) |-> [user_id |-> al[i].user_id, list |-> "alert"]]

\* the call of send_discord_message_with_image for a claimed departure
\* a list that keeps the last copy of each facility
FacilitiesUniqueLast(facilities) ==
  LET keep == {i \in 1..Len(facilities) :
                 \A j \in (i + 1)..Len(facilities) : facilities[j] # facilities[i]}
  IN [k \in 1..Cardinality(keep) |->
        facilities[CHOOSE i \in keep : Cardinality({j \in keep : j < i}) = k - 1]]

\* facilities_unique: [x for x in facilities if not (x in seen or seen.add(x))]
FacilitiesUnique(facilities) ==
  LET keep == {i \in 1..Len(facilities) :
                 \A j \in 1..(i - 1) : facilities[j] # facilities[i]}
  IN [k \in 1..Cardinality(keep) |->
        facilities[CHOOSE i \in keep : Cardinality({j \in keep : j < i}) = k - 1]]

Detected(c, info) ==
  [kind |-> "detected", ch |-> Head(chs).id, journey |-> c.journey, user |-> "",
   list |-> "", info |-> info, facilities |-> FacilitiesUnique(info.facilities)]

\* the call of channel.send that mentions a user
Alert(m) ==
  [kind |-> "alert", ch |-> Head(chs).id, journey |-> cur.journey, user |-> m.user_id,
   list |-> m.list, info |-> NoInfo, facilities |-> <<>>]

\* ------------------------------------------------------- station directory
\* dict.get(name) when the key is missing
NotFound == <<>>

\* the keys one record with a code writes to STATIONS_CACHE: its three kinds
\* of name, its synonyms and its code, lowercased; each is given the
\* record's code
Keys(station) ==
  {Lower(n) : n \in {station.namen.lang, station.namen.middel, station.namen.kort} \ {<<>>}}
    \cup {Lower(station.synoniemen[i]) : i \in 1..Len(station.synoniemen)}
    \cup {Lower(station.code)}

\* the first record with a code that writes key k
FirstWriter(recs, k) ==
  CHOOSE i \in 1..Len(recs) :
    /\ recs[i].code # <<>> /\ k \in Keys(recs[i])
    /\ \A j \in 1..(i - 1) : recs[j].code = <<>> \/ k \notin Keys(recs[j])

\* the record whose assignment STATIONS_CACHE[k] = code is the last one the
\* loop over the records makes
LastWriter(recs, k) ==
  CHOOSE i \in 1..Len(recs) :
    /\ recs[i].code # <<>> /\ k \in Keys(recs[i])
    /\ \A j \in (i + 1)..Len(recs) : recs[j].code = <<>> \/ k \notin Keys(recs[j])

\* STATIONS_CACHE after the loop over the records, first to last; a record
\* without code is passed over, a key no record writes keeps its value
CacheStations(cache, recs) ==
  LET written == UNION {Keys(recs[i]) : i \in {j \in 1..Len(recs) : recs[j].code # <<>>}}
  IN [k \in written \cup DOMAIN cache |->
        IF k \in written THEN recs[LastWriter(recs, k)].code ELSE cache[k]]

\* long_names_map after the loop over the records: the (code, long name)
\* items of the dict in insertion order, a code at the place of its first
\* record with a long name and with the long name of its last one
LongNames(recs) ==
  LET named == {i \in 1..Len(recs) : recs[i].code # <<>> /\ recs[i].namen.lang # <<>>}
      first == {i \in named : \A j \in named : j < i => recs[j].code # recs[i].code}
      last(c) == CHOOSE i \in named :
                   recs[i].code = c /\ \A j \in named : j > i => recs[j].code # c
      nth(k) == CHOOSE i \in first : Cardinality({j \in first : j < i}) = k - 1
  IN [k \in 1..Cardinality(first) |->
        <<recs[nth(k)].code, recs[last(recs[nth(k)].code)].namen.lang>>]

\* a < b for two strings
RECURSIVE Less(_, _)
Less(a, b) ==
  IF b = <<>> THEN FALSE
  ELSE IF a = <<>> THEN TRUE
  ELSE IF Ord[Head(a)] # Ord[Head(b)] THEN Ord[Head(a)] < Ord[Head(b)]
  ELSE Less(Tail(a), Tail(b))

\* list.sort(): a stable sort, each name at the place its rank gives it
SortNames(names) ==
  LET before(i) == {j \in 1..Len(names) :
                     Less(names[j], names[i]) \/ (names[j] = names[i] /\ j < i)}
  IN [k \in 1..Len(names) |->
        names[CHOOSE i \in 1..Len(names) : Cardinality(before(i)) = k - 1]]

\* a sort that gives the largest name first
SortSetDescending(S) ==
  [k \in 1..Cardinality(S) |->
     CHOOSE x \in S : Cardinality({y \in S : Less(x, y)}) = k - 1]

\* sorted(list(matches))
SortSet(S) ==
  [k \in 1..Cardinality(S) |->
     CHOOSE x \in S : Cardinality({y \in S : Less(y, x)}) = k - 1]

\* the words of str.split(), as a set; word is the word being read
RECURSIVE Split(_, _)
Split(name, word) ==
  IF name = <<>> THEN (IF word = <<>> THEN {} ELSE {word})
  ELSE IF Head(name) = " "
       THEN (IF word = <<>> THEN {} ELSE {word}) \cup Split(Tail(name), <<>>)
       ELSE Split(Tail(name), Append(word, Head(name)))

\* prefixes that stop before the end of the word
PrefixesProper(word) == {SubSeq(word, 1, i) : i \in 1..(Len(word) - 1)}

\* word[:i] for i in range(1, len(word) + 1)
Prefixes(word) == {SubSeq(word, 1, i) : i \in 1..Len(word)}

\* the prefixes of the words of station_name.lower()
NamePrefixes(station_name) ==
  UNION {Prefixes(w) : w \in Split(Lower(station_name), <<>>)}

\* word_prefix_map after the loop over STATIONS_LIST
PrefixMap(list) ==
  LET names == {list[i] : i \in 1..Len(list)}
  IN [p \in UNION {NamePrefixes(n) : n \in names} |->
        {n \in names : p \in NamePrefixes(n)}]

\* the three structures after initialize_stations_cache has run on what
\* load_stations returned
Initialized(cache, recs) ==
  LET items == LongNames(recs)
      names == [i \in 1..Len(items) |-> items[i][2]]
      list  == SortNames(SelectSeq(names, LAMBDA n : Len(n) > 1))
  IN [STATIONS_CACHE |-> CacheStations(cache, recs),
      STATIONS_LIST |-> list,
      word_prefix_map |-> PrefixMap(list),
      stations |-> recs]

\* the three structures as they are
Directory ==
  [STATIONS_CACHE |-> STATIONS_CACHE, STATIONS_LIST |-> STATIONS_LIST,
   word_prefix_map |-> word_prefix_map, stations |-> stations]

\* STATIONS_CACHE.get(name.lower())
Lookup(cache, name) ==
  IF Lower(name) \in DOMAIN cache THEN cache[Lower(name)] ELSE NotFound

\* a test that looks at the first character of the needle only
ContainsFirst(hay, needle) ==
  needle = <<>> \/ \E i \in 1..Len(hay) : hay[i] = needle[1]

\* needle in hay
Contains(hay, needle) ==
  \E i \in 0..(Len(hay) - Len(needle)) : SubSeq(hay, i + 1, i + Len(needle)) = needle

\* a slice that is one too long
TakeOneMore(seq, n) == SubSeq(seq, 1, IF Len(seq) < n + 1 THEN Len(seq) ELSE n + 1)

\* seq[:n]
Take(seq, n) == SubSeq(seq, 1, IF Len(seq) < n THEN Len(seq) ELSE n)

\* the names station_autocomplete offers for `current`
Choices(d, current) ==
  LET current_lower == Lower(current)
      matches == IF current_lower \in DOMAIN d.word_prefix_map
                 THEN d.word_prefix_map[current_lower] ELSE {}
  IN IF matches # {}
     THEN Take(SortSet(matches), ChoiceLimit)
     ELSE Take(SelectSeq(d.STATIONS_LIST, LAMBDA name : Contains(Lower(name), current_lower)),
               ChoiceLimit)

\* a reply that reads an answer that is not a 200 as one without departures
DeparturesReplyLenient(station_code, api_key, outcome, departures) ==
  LET none == [reply |-> "none", station |-> <<>>, departures |-> <<>>]
  IN IF station_code = NotFound THEN [none EXCEPT !.reply = "no station"]
     ELSE IF api_key = "" THEN [none EXCEPT !.reply = "no api key"]
     ELSE IF outcome = "transport" THEN none
     ELSE IF outcome = "status" \/ departures = <<>>
          THEN [none EXCEPT !.reply = "no departures", !.station = UpperName(station_code)]
     ELSE [reply |-> "page", station |-> UpperName(station_code), departures |-> departures]

\* what list_departures sends with interaction.followup.send: nothing when
\* session.get raises, else one of its four messages or the first page
DeparturesReply(station_code, api_key, outcome, departures) ==
  LET none == [reply |-> "none", station |-> <<>>, departures |-> <<>>]
  IN IF station_code = NotFound THEN [none EXCEPT !.reply = "no station"]
     ELSE IF api_key = "" THEN [none EXCEPT !.reply = "no api key"]
     ELSE IF outcome = "transport" THEN none
     ELSE IF outcome = "status"
          THEN [none EXCEPT !.reply = "fetch error", !.station = UpperName(station_code)]
     ELSE IF departures = <<>>
          THEN [none EXCEPT !.reply = "no departures", !.station = UpperName(station_code)]
     ELSE [reply |-> "page", station |-> UpperName(station_code), departures |-> departures]

\* ------------------------------------------------------------------ state
\* the station directory after on_ready has built it from one of files
InitStationsWith(files) ==
  /\ \E f \in files :
       LET d == Initialized(<<>>, f)
       IN /\ STATIONS_CACHE = d.STATIONS_CACHE /\ STATIONS_LIST = d.STATIONS_LIST
          /\ word_prefix_map = d.word_prefix_map /\ stations = d.stations
  /\ answer = [op |-> "none", arg |-> <<>>, value |-> <<>>]

\* the poll task before its first pass
InitPollWith(cfg, starts, advances) ==
  /\ clock \in starts /\ left = advances
  /\ config = cfg
  /\ ledger = <<>>
  /\ loop = "sleeping" /\ pc = "idle" /\ now = 0
  /\ chs = <<>> /\ sts = <<>> /\ todo = <<>> /\ cur = NoCur /\ msgs = <<>>
  /\ events = <<>> /\ judged = {}
  /\ result = "none" /\ printed = NoLine
  /\ TRAIN_NUMBERS_CACHE = {} /\ TRAIN_TYPES_CACHE = {}
  /\ paginator = NoView /\ message = NoMessage
  /\ active_departure_boards = <<>> /\ board_data = <<>> /\ board_cur = NoBoard
  /\ board_loop = "sleeping" /\ board_pc = "idle" /\ board_todo = <<>> /\ next_id = 0

\* the poll task before its first pass, beside a directory of two stations
InitWith(cfg, starts, advances) ==
  /\ InitPollWith(cfg, starts, advances)
  /\ InitStationsWith({<<StationUT, StationUO>>})

\* the pass returns or falls off its end
Finish ==
  /\ loop' = "sleeping" /\ pc' = "idle" /\ result' = "completed"
  /\ chs' = <<>> /\ sts' = <<>> /\ todo' = <<>> /\ cur' = NoCur /\ msgs' = <<>>

\* an exception leaves fetch_train_data: tasks.loop runs the pass again after
\* a back-off for a connection error and ends the task for any other exception
Abort(fatal) ==
  /\ loop' = IF fatal THEN "dead" ELSE "sleeping"
  /\ pc' = "idle" /\ result' = "aborted"
  /\ chs' = <<>> /\ sts' = <<>> /\ todo' = <<>> /\ cur' = NoCur /\ msgs' = <<>>

\* the stations loop and the channels loop go on after the current station
AfterStation ==
  /\ todo' = <<>> /\ cur' = NoCur /\ msgs' = <<>>
  /\ IF Len(sts) > 1
     THEN /\ sts' = Tail(sts) /\ pc' = "fetch"
          /\ UNCHANGED <<chs, loop, result>>
     ELSE LET c1 == SkipChannels(Tail(chs))
          IN IF c1 = <<>>
             THEN /\ loop' = "sleeping" /\ pc' = "idle" /\ result' = "completed"
                  /\ chs' = <<>> /\ sts' = <<>>
             ELSE /\ chs' = c1 /\ sts' = Head(c1).stations /\ pc' = "fetch"
                  /\ UNCHANGED <<loop, result>>

\* TRAIN_NUMBERS_CACHE.add(str(train_number)) for the departures of td the
\* loop has read when rest is still to come
NumbersRead(td, rest) ==
  {td[i].number : i \in {j \in 1..(Len(td) - Len(rest)) : td[j].number # ""}}

\* the departures loop goes on with td, up to its next await
Resume(td) ==
  LET r == Scan(td, Head(chs).id, now, ledger, {})
  IN /\ ledger' = r.ledger /\ judged' = r.judged
     /\ TRAIN_NUMBERS_CACHE' = TRAIN_NUMBERS_CACHE \cup NumbersRead(td, r.todo)
     /\ IF r.hit
        THEN /\ pc' = "enrich" /\ todo' = r.todo /\ msgs' = <<>>
             /\ cur' = [key |-> r.key, journey |-> JourneyId(r.train), station |-> Head(sts),
                        train_number |-> r.train.number, train_type |-> ""]
             /\ UNCHANGED <<chs, sts, loop, result>>
        ELSE AfterStation

\* ---------------------------------------------------------------- actions
\* the wall clock moves
Advance(d) ==
  /\ left > 0
  /\ clock' = clock + d /\ left' = left - 1
  /\ judged' = {} /\ printed' = NoLine
  /\ UNCHANGED <<config, ledger, loop, pc, now, chs, sts, todo, cur, msgs,
                 events, result, TRAIN_NUMBERS_CACHE, TRAIN_TYPES_CACHE>>
  /\ UNCHANGED <<stationVars, uiVars, boardVars>>

\* a pass that writes the configuration back without the channels it skips
StartPassPruning ==
  /\ ledger' = Clean(ledger, clock)
  /\ now' = clock
  /\ judged' = {} /\ printed' = NoLine
  /\ config' = SelectSeq(config, LAMBDA c : c.id \in KnownChannels /\ c.stations # <<>>)
  /\ LET c1 == SkipChannels(config)
     IN IF c1 = <<>>
        THEN Finish
        ELSE /\ loop' = "running" /\ pc' = "fetch"
             /\ chs' = c1 /\ sts' = Head(c1).stations
             /\ todo' = <<>> /\ cur' = NoCur /\ msgs' = <<>>
             /\ UNCHANGED result
  /\ UNCHANGED <<clock, left, events, TRAIN_NUMBERS_CACHE, TRAIN_TYPES_CACHE>>
  /\ UNCHANGED <<stationVars, uiVars, boardVars>>

\* fetch_train_data up to its first departures request: eviction, the
\* configuration, `now`
StartPass ==
  /\ ledger' = Clean(ledger, clock)
  /\ now' = clock
  /\ judged' = {} /\ printed' = NoLine
  /\ LET c1 == SkipChannels(config)
     IN IF c1 = <<>>
        THEN Finish
        ELSE /\ loop' = "running" /\ pc' = "fetch"
             /\ chs' = c1 /\ sts' = Head(c1).stations
             /\ todo' = <<>> /\ cur' = NoCur /\ msgs' = <<>>
             /\ UNCHANGED result
  /\ UNCHANGED <<clock, left, config, events, TRAIN_NUMBERS_CACHE, TRAIN_TYPES_CACHE>>
  /\ UNCHANGED <<stationVars, uiVars, boardVars>>

\* a loop that calls fetch_train_data while the pass before it is suspended
TickStartReentrant ==
  /\ loop # "dead"
  /\ StartPass

\* tasks.loop calls fetch_train_data when the pass before it has ended
TickStart ==
  /\ loop = "sleeping"
  /\ StartPass

\* the departures request of the current station is answered
Fetch(outcome, resp) ==
  /\ pc = "fetch"
  /\ UNCHANGED <<clock, left, config, now, events, TRAIN_TYPES_CACHE>>
  /\ UNCHANGED <<stationVars, uiVars, boardVars>>
  /\ CASE outcome = "transport" ->
            /\ Abort(FALSE)
            /\ judged' = {} /\ printed' = NoLine
            /\ UNCHANGED <<ledger, TRAIN_NUMBERS_CACHE>>
       [] outcome = "status" ->
            /\ AfterStation
            /\ judged' = {} /\ printed' = ErrorLine(Head(sts))
            /\ UNCHANGED <<ledger, TRAIN_NUMBERS_CACHE>>
       [] outcome = "ok" ->
            /\ Resume(resp)
            /\ printed' = NoLine

\* TRAIN_TYPES_CACHE.add(train_type), for a 200 with a type other than
\* "Unknown"
TypesRead(outcome, info) ==
  IF outcome = "ok" /\ info.train_type # "" /\ info.train_type # "Unknown"
  THEN {info.train_type} ELSE {}

\* the train detail request of the claimed departure is answered; the
\* announcement is handed to send_discord_message_with_image
EnrichWith(outcome, detail) ==
  /\ pc = "enrich"
  /\ judged' = {} /\ printed' = NoLine
  /\ UNCHANGED <<clock, left, config, ledger, now, TRAIN_NUMBERS_CACHE>>
  /\ UNCHANGED <<stationVars, uiVars, boardVars>>
  /\ CASE outcome = "transport" ->
            /\ Abort(FALSE)
            /\ UNCHANGED <<events, TRAIN_TYPES_CACHE>>
       [] outcome \in {"status", "ok"} ->
            /\ LET info == IF outcome = "ok" THEN detail ELSE NoInfo
               IN /\ cur' = [cur EXCEPT !.train_type = info.train_type]
                  /\ events' = Append(events, Detected(cur, info))
                  /\ TRAIN_TYPES_CACHE' = TRAIN_TYPES_CACHE \cup TypesRead(outcome, info)
            /\ pc' = "send"
            /\ UNCHANGED <<loop, chs, sts, todo, msgs, result>>

\* the train detail answer, when it is a 200, carries type ty
Enrich(outcome, ty) == EnrichWith(outcome, Info(ty))

\* the channel answers the announcement; the first mention is sent
Send(outcome) ==
  /\ pc = "send" /\ printed' = NoLine
  /\ UNCHANGED <<clock, left, config, now, TRAIN_TYPES_CACHE>>
  /\ UNCHANGED <<stationVars, uiVars, boardVars>>
  /\ IF outcome = "error"
     THEN /\ Abort(TRUE)
          /\ judged' = {}
          /\ UNCHANGED <<ledger, events, TRAIN_NUMBERS_CACHE>>
     ELSE LET m == Mentions(Head(chs), cur)
          IN IF m = <<>>
             THEN /\ Resume(todo)
                  /\ UNCHANGED events
             ELSE /\ events' = Append(events, Alert(Head(m)))
                  /\ msgs' = Tail(m) /\ pc' = "notify"
                  /\ judged' = {}
                  /\ UNCHANGED <<ledger, loop, chs, sts, todo, cur, result,
                                 TRAIN_NUMBERS_CACHE>>

\* the channel answers a mention; the next one is sent
Notify(outcome) ==
  /\ pc = "notify" /\ printed' = NoLine
  /\ UNCHANGED <<clock, left, config, now, TRAIN_TYPES_CACHE>>
  /\ UNCHANGED <<stationVars, uiVars, boardVars>>
  /\ IF outcome = "error"
     THEN /\ Abort(TRUE)
          /\ judged' = {}
          /\ UNCHANGED <<ledger, events, TRAIN_NUMBERS_CACHE>>
     ELSE IF msgs = <<>>
          THEN /\ Resume(todo)
               /\ UNCHANGED events
          ELSE /\ events' = Append(events, Alert(Head(msgs)))
               /\ msgs' = Tail(msgs)
               /\ judged' = {}
               /\ UNCHANGED <<ledger, loop, pc, chs, sts, todo, cur, result,
                              TRAIN_NUMBERS_CACHE>>

\* the three structures become d
SetDirectory(d) ==
  /\ STATIONS_CACHE' = d.STATIONS_CACHE /\ STATIONS_LIST' = d.STATIONS_LIST
  /\ word_prefix_map' = d.word_prefix_map /\ stations' = d.stations

\* on_ready fires again after a reconnect: initialize_stations_cache runs on
\* what load_stations returns now; the tasks are already started
OnReady(file) ==
  /\ SetDirectory(Initialized(STATIONS_CACHE, file))
  /\ UNCHANGED <<answer, pollVars, uiVars, boardVars>>

\* get_station_code(name); load_stations would return file
GetStationCode(name, file) ==
  LET d == IF STATIONS_CACHE = <<>> THEN Initialized(STATIONS_CACHE, file) ELSE Directory
  IN /\ SetDirectory(d)
     /\ answer' = [op |-> "code", arg |-> name, value |-> Lookup(d.STATIONS_CACHE, name)]
     /\ UNCHANGED <<pollVars, uiVars, boardVars>>

\* station_autocomplete(interaction, current); load_stations would return file
StationAutocomplete(current, file) ==
  LET d == IF STATIONS_LIST = <<>> THEN Initialized(STATIONS_CACHE, file) ELSE Directory
  IN /\ SetDirectory(d)
     /\ answer' = [op |-> "choices", arg |-> current, value |-> Choices(d, current)]
     /\ UNCHANGED <<pollVars, uiVars, boardVars>>

\* /listdepartures station_name; load_stations would return file, config.json
\* holds api_key, the departures request ends as outcome with departures
ListDepartures(station_name, file, api_key, outcome, departures) ==
  LET d == IF STATIONS_CACHE = <<>> THEN Initialized(STATIONS_CACHE, file) ELSE Directory
  IN /\ SetDirectory(d)
     /\ answer' = [op |-> "departures", arg |-> station_name,
                   value |-> DeparturesReply(Lookup(d.STATIONS_CACHE, station_name),
                                             api_key, outcome, departures)]
     /\ UNCHANGED <<pollVars, uiVars, boardVars>>

Poll ==
  \/ TickStart
  \/ \E o \in {"ok", "status", "transport"}, resp \in Responses : Fetch(o, resp)
  \/ \E o \in {"ok", "status", "transport"}, ty \in DetailTypes : Enrich(o, ty)
  \/ \E o \in {"ok", "error"} : Send(o)
  \/ \E o \in {"ok", "error"} : Notify(o)

\* every channel of the configuration, a start as the first window opens
Init == InitWith(FullConfig, {0}, MaxAdvances)

Next ==
  \/ \E d \in {FutureMargin} : Advance(d)
  \/ Poll

Spec == Init /\ [][Next]_vars

\* one channel over the two hours an entry lives, a start as the first window
\* opens or as it closes
InitTime == InitWith(OneChannel, {0, PastMargin + FutureMargin}, MaxLongAdvances)

NextTime ==
  \/ \E d \in {1, TTL - 1} : Advance(d)
  \/ Poll

SpecTime == InitTime /\ [][NextTime]_vars

\* every train with a well-formed planned time is in the answer
HasAllTrains(resp) ==
  \A tr \in Trains :
    Strptime(tr.plannedDateTime) # ParseError => \E i \in 1..Len(resp) : resp[i] = tr

\* one channel, passes that start at most 15 seconds apart from a first pass
\* before any train's window ends, departures requests that succeed and list
\* every train
InitRegular == InitWith(OneChannel, {0}, MaxRegularAdvances)

NextRegular ==
  \/ \E d \in {1, FutureMargin} : Advance(d)
  \/ (clock - now <= FutureMargin /\ TickStart)
  \/ \E resp \in {r \in Responses : HasAllTrains(r)} : Fetch("ok", resp)
  \/ \E o \in {"ok", "status", "transport"}, ty \in DetailTypes : Enrich(o, ty)
  \/ \E o \in {"ok", "error"} : Send(o)
  \/ \E o \in {"ok", "error"} : Notify(o)

SpecRegular == InitRegular /\ [][NextRegular]_vars

\* one pass that announces the train without journeyId, for every list of
\* facilities the train detail answer can carry
InitFacilities == InitWith(OneChannel, {0}, 0)

NextFacilities ==
  \/ TickStart
  \/ Fetch("ok", <<TrainB>>)
  \/ \E fs \in FacilityLists : EnrichWith("ok", [Info("ICM") EXCEPT !.facilities = fs])
  \/ Send("ok")
  \/ Notify("ok")

SpecFacilities == InitFacilities /\ [][NextFacilities]_vars

\* the station directory: any stations.json at on_ready, then reconnects and
\* users who resolve and complete station names
InitStations ==
  /\ InitPollWith(OneChannel, {0}, 0)
  /\ InitStationsWith(StationFiles)

\* what load_stations can return to a reader: it is called only by a reader
\* that finds its structure empty
ReadBy(empty) == IF empty THEN StationFiles ELSE {<<>>}

NextStations ==
  \/ \E f \in StationFiles : OnReady(f)
  \/ \E n \in StationQueries, f \in ReadBy(STATIONS_CACHE = <<>>) : GetStationCode(n, f)
  \/ \E c \in StationPrefixes, f \in ReadBy(STATIONS_LIST = <<>>) :
       StationAutocomplete(c, f)

SpecStations == InitStations /\ [][NextStations]_vars

\* every channel of the configuration, polled at one instant: as the first
\* window opens, or when both well-formed departures are inside their windows
InitKeys == InitWith(FullConfig, {0, FutureMargin}, 0)

NextKeys == Poll

SpecKeys == InitKeys /\ [][NextKeys]_vars

\* names users give to /listdepartures, and the api_key of config.json
BoardQueries == {<<"u", "t">>, <<"U", "O">>, <<"x">>}
ApiKeys == {"", "key"}

\* what the departures request of /listdepartures can list
BoardResponses == {<<>>, <<TrainA>>, <<TrainA, TrainB>>}

\* one channel polled at one instant, beside users who list departures
InitDepartures == InitWith(OneChannel, {0}, 0)

NextDepartures ==
  \/ Poll
  \/ \E n \in BoardQueries, f \in ReadBy(STATIONS_CACHE = <<>>), k \in ApiKeys,
        o \in {"ok", "status", "transport"}, resp \in BoardResponses :
       ListDepartures(n, f, k, o, resp)

SpecDepartures == InitDepartures /\ [][NextDepartures]_vars

\* the display list of files in which two codes can carry one long name
InitNames ==
  /\ InitPollWith(OneChannel, {0}, 0)
  /\ InitStationsWith(NameFiles)

NextNames ==
  \/ \E f \in NameFiles : OnReady(f)
  \/ \E c \in StationPrefixes, f \in (IF STATIONS_LIST = <<>> THEN NameFiles ELSE {<<>>}) :
       StationAutocomplete(c, f)

SpecNames == InitNames /\ [][NextNames]_vars

\* autocomplete over a directory with more names than it may offer
InitChoices ==
  /\ InitPollWith(OneChannel, {0}, 0)
  /\ InitStationsWith(ChoiceFiles)

NextChoices ==
  \/ \E f \in ChoiceFiles : OnReady(f)
  \/ \E c \in ChoicePrefixes, f \in ReadBy(STATIONS_LIST = <<>>) :
       StationAutocomplete(c, f)

SpecChoices == InitChoices /\ [][NextChoices]_vars

\* ------------------------------------------------- DeparturesPaginator
\* the default of the page_size parameter; list_departures passes no other
PageSize == 5

\* the departures lists list_departures hands to a paginator: never empty
DepartureLists == {[i \in 1..n |-> i] : n \in 1..MaxDepartures}

Max(a, b) == IF a > b THEN a ELSE b
Min(a, b) == IF a < b THEN a ELSE b

\* max(1, (len(departures) + page_size - 1) // page_size)
TotalPages(departures, page_size) ==
  Max(1, (Len(departures) + page_size - 1) \div page_size)

\* buttons that are disabled one page early
UpdateButtonsEarly(v) ==
  [v EXCEPT !.previous_disabled = (v.current_page <= 1),
            !.next_disabled = (v.current_page >= v.total_pages - 2)]

\* _update_buttons
UpdateButtons(v) ==
  [v EXCEPT !.previous_disabled = (v.current_page = 0),
            !.next_disabled = (v.current_page >= v.total_pages - 1)]

\* self.departures[start_idx:end_idx] of get_current_page_embed
CurrentDepartures(v) ==
  LET start_idx == v.current_page * v.page_size
      end_idx   == Min(start_idx + v.page_size, Len(v.departures))
  IN SubSeq(v.departures, start_idx + 1, end_idx)

\* the message after a send or an edit with embed=get_current_page_embed()
\* and view=self
Shown(v) ==
  [page |-> v.current_page + 1, of |-> v.total_pages, fields |-> CurrentDepartures(v),
   previous_disabled |-> v.previous_disabled, next_disabled |-> v.next_disabled]

\* DeparturesPaginator(station_code, departures) and the followup.send of its
\* first page
NewPaginator(departures) ==
  LET v == UpdateButtons(
             [built |-> TRUE, departures |-> departures, page_size |-> PageSize,
              current_page |-> 0,
              total_pages |-> TotalPages(departures, PageSize),
              previous_disabled |-> FALSE, next_disabled |-> FALSE,
              finished |-> FALSE])
  IN /\ paginator' = v /\ message' = Shown(v)
     /\ UNCHANGED <<pollVars, stationVars, boardVars>>

\* a press that moves the view, then edit_message, which ends as outcome
Press(page, outcome) ==
  /\ paginator.built /\ ~paginator.finished
  /\ LET v == UpdateButtons([paginator EXCEPT !.current_page = page])
     IN /\ paginator' = v
        /\ message' = IF outcome = "ok" THEN Shown(v) ELSE message
  /\ UNCHANGED <<pollVars, stationVars, boardVars>>

\* the previous button
PreviousPage(outcome) == Press(Max(0, paginator.current_page - 1), outcome)

\* the next button
NextPage(outcome) ==
  Press(Min(paginator.total_pages - 1, paginator.current_page + 1), outcome)

\* 180 seconds without a press: the view is finished and takes no presses
OnTimeout ==
  /\ paginator.built /\ ~paginator.finished
  /\ paginator' = [paginator EXCEPT !.previous_disabled = TRUE,
                                    !.next_disabled = TRUE, !.finished = TRUE]
  /\ UNCHANGED <<message, pollVars, stationVars, boardVars>>

InitPages == InitWith(OneChannel, {0}, 0)

NextPages ==
  \/ \E departures \in DepartureLists : NewPaginator(departures)
  \/ \E o \in {"ok", "error"} : PreviousPage(o)
  \/ \E o \in {"ok", "error"} : NextPage(o)
  \/ OnTimeout

SpecPages == InitPages /\ [][NextPages]_vars

\* ----------------------------------------------------- departure boards
\* channels that run the board commands, and the station codes they name
BoardChannels == {"1", "2"}
BoardStations == {"ut", "asd"}

\* channel_id in active_departure_boards
HasBoard(boards, channel_id) ==
  \E i \in 1..Len(boards) : boards[i].channel_id = channel_id

\* the dict active_departure_boards[channel_id]
BoardOf(boards, channel_id) ==
  boards[CHOOSE i \in 1..Len(boards) : boards[i].channel_id = channel_id].ref

\* del active_departure_boards[channel_id], for a channel that is a key
DelBoard(boards, channel_id) ==
  SelectSeq(boards, LAMBDA b : b.channel_id # channel_id)

\* the synchronous head of the loop body, lines 446-456, from the first item
\* of items on: channels of `gone` are unknown to the bot, api_key is what
\* config.json holds; it ends at the session.get of an item, at the end of
\* the copy, or with the KeyError of line 450
RECURSIVE Iterate(_, _, _, _)
Iterate(items, boards, gone, api_key) ==
  IF items = <<>>
  THEN [todo |-> <<>>, boards |-> boards, raised |-> FALSE]
  ELSE IF Head(items).channel_id \in gone
  THEN IF HasBoard(boards, Head(items).channel_id)
       THEN Iterate(Tail(items), DelBoard(boards, Head(items).channel_id), gone, api_key)
       ELSE [todo |-> items, boards |-> boards, raised |-> TRUE]
  ELSE IF api_key = ""
  THEN Iterate(Tail(items), boards, gone, api_key)
  ELSE [todo |-> items, boards |-> boards, raised |-> FALSE]

\* the exception of this step leaves departure_board_updater: the del of line
\* 548 raises KeyError inside the handler of the outer try
Escapes(at, present) == at \in {"text_send_open", "image_send_open"} /\ ~present

\* the pass goes on from the items r.todo, with the boards r.boards
BoardGoOn(r) ==
  /\ active_departure_boards' = r.boards
  /\ board_todo' = r.todo
  /\ IF r.raised
     THEN board_loop' = "dead" /\ board_pc' = "idle" /\ board_cur' = NoBoard
     ELSE IF r.todo = <<>>
     THEN board_loop' = "sleeping" /\ board_pc' = "idle" /\ board_cur' = NoBoard
     ELSE /\ board_loop' = "running" /\ board_pc' = "fetch"
          /\ board_cur' = [channel_id |-> Head(r.todo).channel_id,
                           station_name |-> board_data'[Head(r.todo).ref].station,
                           message_id |-> board_data'[Head(r.todo).ref].message_id]

\* the work on the current channel is over: the loop takes the next item
BoardNext(boards, gone, api_key) ==
  BoardGoOn(Iterate(Tail(board_todo), boards, gone, api_key))

\* departure_board_updater is called: it copies the items and runs up to its
\* first await
BoardTick(gone, api_key) ==
  /\ board_loop = "sleeping"
  /\ board_data' = board_data
  /\ BoardGoOn(Iterate(active_departure_boards, active_departure_boards, gone, api_key))
  /\ UNCHANGED <<next_id, pollVars, stationVars, uiVars>>

\* session.get, response.json and generate_board_image are over: a transport
\* exception, a status that is not 200, no image, or an image
BoardFetch(outcome, gone, api_key) ==
  /\ board_pc = "fetch"
  /\ board_data' = board_data
  /\ IF outcome = "transport"
     THEN BoardNext(active_departure_boards, gone, api_key)
     ELSE /\ board_pc' =
               IF outcome = "ok"
               THEN (IF board_cur.message_id # 0 THEN "image_old" ELSE "image_send_try")
               ELSE (IF board_cur.message_id # 0 THEN "text_old" ELSE "text_send_open")
          /\ UNCHANGED <<active_departure_boards, board_loop, board_todo, board_cur>>
  /\ UNCHANGED <<next_id, pollVars, stationVars, uiVars>>

\* fetch_message and delete of the old message are over
BoardOld(outcome, gone, api_key) ==
  /\ board_pc \in {"text_old", "image_old"}
  /\ board_data' = board_data
  /\ CASE outcome = "ok" ->
            /\ board_pc' = IF board_pc = "text_old" THEN "text_send_try" ELSE "image_send_try"
            /\ UNCHANGED <<active_departure_boards, board_loop, board_todo, board_cur>>
       [] outcome = "notfound" ->
            /\ board_pc' = IF board_pc = "text_old" THEN "text_send_open" ELSE "image_send_open"
            /\ UNCHANGED <<active_departure_boards, board_loop, board_todo, board_cur>>
       [] outcome = "forbidden" ->
            BoardNext(IF board_pc = "image_old"
                      THEN DelBoard(active_departure_boards, board_cur.channel_id)
                      ELSE active_departure_boards, gone, api_key)
       [] outcome = "error" ->
            BoardNext(active_departure_boards, gone, api_key)
  /\ UNCHANGED <<next_id, pollVars, stationVars, uiVars>>

\* channel.send is over; after a send that succeeded the message id is
\* stored in the channel's board
BoardSend(outcome, gone, api_key) ==
  LET c == board_cur.channel_id
      present == HasBoard(active_departure_boards, c)
  IN
  /\ board_pc \in {"text_send_try", "text_send_open", "image_send_try", "image_send_open"}
  /\ CASE outcome = "ok" ->
            /\ next_id < MaxMessages
            /\ next_id' = next_id + 1
            /\ board_data' =
                 IF present
                 THEN [board_data EXCEPT ![BoardOf(active_departure_boards, c)].message_id =
                                            next_id + 1]
                 ELSE board_data
            /\ BoardNext(active_departure_boards, gone, api_key)
       [] outcome = "forbidden" ->
            /\ next_id' = next_id /\ board_data' = board_data
            /\ IF Escapes(board_pc, present)
               THEN BoardGoOn([todo |-> board_todo, boards |-> active_departure_boards,
                               raised |-> TRUE])
               ELSE BoardNext(IF board_pc = "text_send_try"
                              THEN active_departure_boards
                              ELSE DelBoard(active_departure_boards, c), gone, api_key)
       [] outcome = "error" ->
            /\ next_id' = next_id /\ board_data' = board_data
            /\ BoardNext(active_departure_boards, gone, api_key)
  /\ UNCHANGED <<pollVars, stationVars, uiVars>>

\* /departure-board station, in channel channel_id
DepartureBoard(channel_id, station) ==
  /\ IF HasBoard(active_departure_boards, channel_id)
     THEN /\ board_data' =
               [board_data EXCEPT ![BoardOf(active_departure_boards, channel_id)] =
                                     [station |-> station, message_id |-> 0]]
          /\ UNCHANGED active_departure_boards
     ELSE /\ Len(board_data) < MaxBoards
          /\ board_data' = Append(board_data, [station |-> station, message_id |-> 0])
          /\ active_departure_boards' =
               Append(active_departure_boards,
                      [channel_id |-> channel_id, ref |-> Len(board_data) + 1])
  /\ board_loop' = IF board_loop = "dead" THEN "sleeping" ELSE board_loop
  /\ answer' = [op |-> "board", arg |-> channel_id, value |-> station]
  /\ UNCHANGED <<board_pc, board_todo, board_cur, next_id>>
  /\ UNCHANGED <<STATIONS_CACHE, STATIONS_LIST, word_prefix_map, stations>>
  /\ UNCHANGED <<pollVars, uiVars>>

\* /stop-departure-board, in channel channel_id
StopDepartureBoard(channel_id) ==
  /\ IF HasBoard(active_departure_boards, channel_id)
     THEN /\ active_departure_boards' = DelBoard(active_departure_boards, channel_id)
          /\ answer' = [op |-> "stop", arg |-> channel_id, value |-> "stopped"]
     ELSE /\ UNCHANGED active_departure_boards
          /\ answer' = [op |-> "stop", arg |-> channel_id, value |-> "no board"]
  /\ UNCHANGED <<board_data, board_loop, board_pc, board_todo, board_cur, next_id>>
  /\ UNCHANGED <<STATIONS_CACHE, STATIONS_LIST, word_prefix_map, stations>>
  /\ UNCHANGED <<pollVars, uiVars>>

InitBoards == InitWith(OneChannel, {0}, 0)

NextBoards ==
  \/ \E c \in BoardChannels, station \in BoardStations : DepartureBoard(c, station)
  \/ \E c \in BoardChannels : StopDepartureBoard(c)
  \/ \E gone \in SUBSET BoardChannels, api_key \in {"", "key"} :
       \/ BoardTick(gone, api_key)
       \/ \E o \in {"transport", "status", "noimage", "ok"} : BoardFetch(o, gone, api_key)
       \/ \E o \in {"ok", "notfound", "forbidden", "error"} : BoardOld(o, gone, api_key)
       \/ \E o \in {"ok", "forbidden", "error"} : BoardSend(o, gone, api_key)

SpecBoards == InitBoards /\ [][NextBoards]_vars

\* --------------------------------------------------------- /settrainalert
\* config.json "channels" before any alert is set: no channel, or channel 1
\* with a station and no alert
AlertConfigs ==
  {<<>>, <<[id |-> "1", stations |-> <<"UT">>, alerts |-> <<>>,
           train_type_notifications |-> <<>>]>>}

\* who asks for alerts, for which trains, naming which stations: the first
\* two names are names of one station, the last is no station's name
AlertUsers == {"u1", "u2"}
AlertTrains == {"11", "12"}
AlertNames == {<<"U", "t", " ", "C">>, <<"u", "c">>, <<"u", "t", " ", "o">>, <<"x">>}

\* the alerts config.json holds
AlertCount(cfg) ==
  Cardinality({ia \in (1..Len(cfg)) \X (1..MaxAlerts) : ia[2] <= Len(cfg[ia[1]].alerts)})

\* a loop that passes over the first alert of the list
SubscribedAfterFirst(alerts, train_number, station_code) ==
  \E i \in 2..Len(alerts) :
    /\ alerts[i].train_number = train_number
    /\ UpperName(alerts[i].station) = UpperName(station_code)

\* the loop of lines 997-1000 finds an alert for the train at the station
Subscribed(alerts, train_number, station_code) ==
  \E i \in 1..Len(alerts) :
    /\ alerts[i].train_number = train_number
    /\ UpperName(alerts[i].station) = UpperName(station_code)

\* config["channels"] with an entry for channel_id, lines 991-994
WithChannel(cfg, channel_id) ==
  IF \E i \in 1..Len(cfg) : cfg[i].id = channel_id THEN cfg
  ELSE Append(cfg, [id |-> channel_id, stations |-> <<>>, alerts |-> <<>>,
                    train_type_notifications |-> <<>>])

\* the alerts of channel_id
ChannelAlerts(cfg, channel_id) ==
  LET c == WithChannel(cfg, channel_id)
  IN c[CHOOSE i \in 1..Len(c) : c[i].id = channel_id].alerts

\* /settrainalert train_number station_name by user_id in channel_id;
\* load_stations would return file
SetTrainAlert(channel_id, user_id, train_number, station_name, file) ==
  LET d == IF STATIONS_CACHE = <<>> THEN Initialized(STATIONS_CACHE, file) ELSE Directory
      station_code == Lookup(d.STATIONS_CACHE, station_name)
      alerts == ChannelAlerts(config, channel_id)
      alert == [train_number |-> train_number, station |-> UpperName(station_code),
                user_id |-> user_id]
      reply(r) == [op |-> "alert",
                   arg |-> <<channel_id, user_id, train_number, station_name>>,
                   value |-> r]
  IN /\ SetDirectory(d)
     /\ IF station_code = NotFound \/ station_code = <<>>
        THEN answer' = reply("no station") /\ config' = config
        ELSE IF Subscribed(alerts, train_number, station_code)
        THEN answer' = reply("already") /\ config' = config
        ELSE /\ AlertCount(config) < MaxAlerts
             /\ answer' = reply("set")
             /\ config' = [i \in 1..Len(WithChannel(config, channel_id)) |->
                             IF WithChannel(config, channel_id)[i].id = channel_id
                             THEN [WithChannel(config, channel_id)[i]
                                     EXCEPT !.alerts = Append(alerts, alert)]
                             ELSE WithChannel(config, channel_id)[i]]
     /\ UNCHANGED <<clock, left, ledger, loop, pc, now, chs, sts, todo, cur, msgs,
                    events, judged, result, printed, TRAIN_NUMBERS_CACHE,
                    TRAIN_TYPES_CACHE>>
     /\ UNCHANGED <<uiVars, boardVars>>

InitAlerts == \E cfg \in AlertConfigs : InitWith(cfg, {0}, 0)

NextAlerts ==
  \E c \in KnownChannels, u \in AlertUsers, n \in AlertTrains, name \in AlertNames,
     f \in (IF STATIONS_CACHE = <<>> THEN {<<StationUT, StationUO>>} ELSE {<<>>}) :
    SetTrainAlert(c, u, n, name, f)

SpecAlerts == InitAlerts /\ [][NextAlerts]_vars

TypeOK ==
  /\ loop \in {"sleeping", "running", "dead"}
  /\ pc \in {"idle", "fetch", "enrich", "send", "notify"}
  /\ (loop = "running") = (pc # "idle")

\* ----------------------------------------------------------------- claims
\* the announcements made so far for journey j in channel c
Announcements(c, j) ==
  {i \in 1..Len(events) :
     events[i].kind = "detected" /\ events[i].ch = c /\ events[i].journey = j}

\* the feed gives this departure no planned time that can be read
Malformed(tr) == tr.plannedDateTime \notin DOMAIN TimeOf

\* this step claims a departure
NewClaim == pc' = "enrich" /\ pc # "enrich"

\* this step ends a pass by an exception
PassAborts == pc # "idle" /\ pc' = "idle" /\ result' = "aborted"

\* C1: in one process lifetime every (channel, journey) is announced at most
\* once, also by passes that run after the two hour eviction of its entry
C1_AtMostOnce ==
  \A i, j \in 1..Len(events) :
    (/\ events[i].kind = "detected" /\ events[j].kind = "detected"
     /\ events[i].ch = events[j].ch /\ events[i].journey = events[j].journey)
    => i = j

\* an announced journey whose entry is evicted is looked at again by a pass
C1_Witness ==
  \E i \in 1..Len(events), v \in judged :
    /\ events[i].kind = "detected"
    /\ v.key = ChannelJourneyId(events[i].ch, events[i].journey)
    /\ v.key \notin DOMAIN ledger
    /\ v.at > TTL

\* C2: a claim succeeds only for a key that is absent and leaves it present;
\* an entry that is present is neither claimed again nor changed
C2_ClaimOnce ==
  [][/\ \A k \in DOMAIN ledger : k \in DOMAIN ledger' => ledger'[k] = ledger[k]
     /\ NewClaim => (cur'.key \notin DOMAIN ledger /\ cur'.key \in DOMAIN ledger')]_vars

\* a departure inside the window whose key is present was passed over
C2_Witness ==
  \E v \in judged :
    v.admitted /\ v.key \in DOMAIN ledger /\ ~(pc = "enrich" /\ cur.key = v.key)

C4_Expiry ==
  [][\A k \in DOMAIN ledger :
       (k \notin DOMAIN ledger') <=> (TickStart /\ clock - ledger[k].timestamp > TTL)]_vars

\* an entry survives the eviction at exactly two hours
C4_Witness ==
  \E k \in DOMAIN ledger : loop = "running" /\ now - ledger[k].timestamp = TTL

\* C5: a departure is admitted exactly when it left at most 30 seconds ago
\* and leaves at most 15 seconds from now
C5_Window ==
  \A v \in judged :
    v.parsed =>
      (v.admitted <=> (v.at - v.departure_time <= 30 /\ v.departure_time - v.at <= 15))

\* one pass admits a departure 30 seconds late and rejects one 31 seconds late
C5_Witness ==
  \E v, w \in judged :
    /\ v.admitted /\ v.at - v.departure_time = 30
    /\ w.parsed /\ ~w.admitted /\ w.at - w.departure_time = 31

\* C6: with passes at most 15 seconds apart and departures requests that
\* succeed, every departure whose window has gone by has been announced
C6_NoDepartureSkipped ==
  \A tr \in Trains :
    (Strptime(tr.plannedDateTime) # ParseError
       /\ now > Strptime(tr.plannedDateTime) + PastMargin)
    => Announcements(Head(config).id, JourneyId(tr)) # {}

\* C7: once a pass has claimed the departure without journeyId that leaves
\* at the pass's `now`, it is announced exactly once, in that pass and after
C7_EndToEnd ==
  \A i \in 1..Len(config) :
    LET k == ChannelJourneyId(config[i].id, JourneyId(TrainB))
    IN (/\ k \in DOMAIN ledger
        /\ ledger[k].timestamp = ledger[k].departure_time
        /\ ~(pc = "enrich" /\ cur.key = k))
       => Cardinality(Announcements(config[i].id, JourneyId(TrainB))) = 1

\* C8: a departures request that fails leaves the ledger alone and does not
\* end the pass by an exception
C8_FetchFailureSkipsStation ==
  [][(\E o \in {"status", "transport"} : Fetch(o, <<>>))
       => (ledger' = ledger /\ ~PassAborts)]_vars

\* C9: no pass is ended by an exception and the loop is never stopped
C9_PassCompletes == result # "aborted" /\ loop # "dead"

\* C10: a departure whose planned time does not parse gets no ledger entry and
\* no announcement, and the pass treats the rest of the list as if the
\* departure were not in it
C10_ParseFailureSkipped ==
  [][/\ \A i \in 1..Len(config), tr \in Trains :
          Malformed(tr) =>
            /\ ChannelJourneyId(config[i].id, JourneyId(tr)) \notin DOMAIN ledger'
            /\ \A n \in 1..Len(events') : events'[n].journey # JourneyId(tr)
     /\ \A resp \in Responses :
          Fetch("ok", resp) =>
            ledger' = Scan(SelectSeq(resp, LAMBDA tr : ~Malformed(tr)),
                           Head(chs).id, now, ledger, {}).ledger]_vars

\* a later departure of the list is claimed after the unparsable one
C10_Witness ==
  \E v \in judged : ~v.parsed /\ pc = "enrich" /\ cur.key # v.key

\* C11: when the train detail request of a claimed departure fails, the
\* announcement is still made, with type "Unknown", crowd "Unknown", length 0,
\* no facilities and one car
C11_EnrichFailureDefaults ==
  [][(\E o \in {"status", "transport"}, ty \in DetailTypes : Enrich(o, ty)) =>
       /\ Len(events') = Len(events) + 1
       /\ events'[Len(events')].kind = "detected"
       /\ events'[Len(events')].journey = cur.journey
       /\ events'[Len(events')].info =
            [train_type |-> "Unknown", crowd_info |-> "Unknown", train_length |-> 0,
             facilities |-> <<>>, bakken_count |-> 1]]_vars

\* C12: the key synthesized for the departure without journeyId is made of
\* its category, operator, number and planned time only, the same in every
\* pass that looks at it and in the ledger
C12_KeyStable ==
  LET expected == {config[i].id \o ":Sprinter:NS:12:t15" : i \in 1..Len(config)}
  IN /\ \A v \in judged : v.departure_time = 15 => v.key \in expected
     /\ \A k \in DOMAIN ledger : ledger[k].departure_time = 15 => k \in expected

\* a later pass synthesizes the key again and finds the entry of an earlier one
C12_Witness ==
  \E v \in judged :
    /\ v.departure_time = 15 /\ v.key \in DOMAIN ledger
    /\ ledger[v.key].timestamp < v.at

\* C13: the start of a pass leaves no expired entry and claims nothing, entries
\* are removed only while no pass is suspended, never in a step that claims,
\* and a claim finds no entry older than two hours
C13_EvictionFirst ==
  [][/\ TickStart =>
          /\ \A k \in DOMAIN ledger' : ~(clock - ledger'[k].timestamp > TTL)
          /\ DOMAIN ledger' \subseteq DOMAIN ledger
     /\ (DOMAIN ledger \ DOMAIN ledger') # {} =>
          (pc = "idle" /\ DOMAIN ledger' \subseteq DOMAIN ledger)
     /\ NewClaim => \A k \in DOMAIN ledger : now - ledger[k].timestamp <= TTL]_vars

\* a pass has emptied the ledger of its announced journeys and is about to
\* make its first departures request
C13_Witness ==
  /\ pc = "fetch" /\ now > TTL /\ ledger = <<>> /\ events # <<>>
  /\ chs = config /\ sts = Head(chs).stations

\* C14: no step of a pass changes the stored configuration
C14_ConfigReadOnly ==
  [][(clock' = clock /\ (TickStart \/ pc # "idle")) => config' = config]_vars

\* a pass that announced a departure has ended and the configuration still
\* holds its three channels
C14_Witness ==
  result = "completed" /\ pc = "idle" /\ events # <<>> /\ Len(config) = 3

\* strings that differ in the case of their letters only
CaseClasses ==
  {{"ut", "UT"}, {"asd", "ASD"}, {"icm", "ICM"}, {"unknown", "Unknown", "UNKNOWN"}}

SameModuloCase(x, y) == x = y \/ \E C \in CaseClasses : x \in C /\ y \in C

\* this step ends the work on a claimed departure
Leaves == cur.key # "" /\ cur'.key # cur.key

\* the mentions made so far for the departure being announced, by list
AlertsFor(evs, list) ==
  {i \in 1..Len(evs) :
     /\ evs[i].kind = "alert" /\ evs[i].ch = Head(chs).id
     /\ evs[i].journey = cur.journey /\ evs[i].list = list}

\* the type the pass resolved for the departure being announced
ResolvedType == IF cur.train_type = "" THEN "Unknown" ELSE cur.train_type

\* C15: when the work on a claimed departure ends, an alert has mentioned its
\* user exactly if its train number is the departure's and its station is the
\* polled station up to case
C15_AlertMatch ==
  [][Leaves =>
       \A n \in 1..Len(Head(chs).alerts) :
         LET a == Head(chs).alerts[n]
         IN (\E i \in AlertsFor(events', "alert") : events'[i].user = a.user_id)
            <=> (a.train_number = cur.train_number
                 /\ SameModuloCase(a.station, cur.station))]_vars

\* C16: when the work on a claimed departure ends, a type notification has
\* mentioned its user exactly if its type is the resolved type up to case
C16_TypeMatch ==
  [][Leaves =>
       \A n \in 1..Len(Head(chs).train_type_notifications) :
         LET t == Head(chs).train_type_notifications[n]
         IN (\E i \in AlertsFor(events', "type") : events'[i].user = t.user_id)
            <=> SameModuloCase(t.train_type, ResolvedType)]_vars

\* C17: when the work on a claimed departure ends, the mentions made for it
\* are as many as the matching alerts and the matching type notifications
\* together
C17_AlertCount ==
  [][Leaves =>
       Cardinality(AlertsFor(events', "alert") \cup AlertsFor(events', "type")) =
         Cardinality({n \in 1..Len(Head(chs).alerts) :
                        /\ Head(chs).alerts[n].train_number = cur.train_number
                        /\ SameModuloCase(Head(chs).alerts[n].station, cur.station)})
         + Cardinality({n \in 1..Len(Head(chs).train_type_notifications) :
                          SameModuloCase(Head(chs).train_type_notifications[n].train_type,
                                         ResolvedType)})]_vars

\* the lowercase names under which a record is filed
Variants(station) ==
  ({Lower(station.namen.lang), Lower(station.namen.middel), Lower(station.namen.kort)}
     \ {<<>>})
  \cup {Lower(station.synoniemen[i]) : i \in 1..Len(station.synoniemen)}
  \cup {Lower(station.code)}

\* the places in the last load of the records that were filed
Loaded == {i \in 1..Len(stations) : stations[i].code # <<>>}

\* C18: get_station_code answers alike for names that differ in case only,
\* with a code for every name, synonym and code of a record of the last load,
\* and with not-found for a name that is no variant of any of these records
C18_ResolveCaseInsensitive ==
  [][(/\ answer'.op = "code"
      /\ \E f \in ReadBy(STATIONS_CACHE = <<>>) : GetStationCode(answer'.arg, f)) =>
       LET q == answer'.arg
           held == \E i \in Loaded' : Lower(q) \in Variants(stations'[i])
       IN /\ \A q2 \in StationQueries :
               Lower(q2) = Lower(q) => Lookup(STATIONS_CACHE', q2) = answer'.value
          /\ held => answer'.value # NotFound
          /\ ~held => answer'.value = NotFound]_vars

\* C19: a variant that several records of a load share resolves to the code
\* of the last of them in the load's order
C19_LastWriteWins ==
  \A v \in DOMAIN STATIONS_CACHE :
    LET holders == {i \in Loaded : v \in Variants(stations[i])}
    IN holders # {} =>
         \E i \in holders : /\ \A j \in holders : j <= i
                             /\ STATIONS_CACHE[v] = stations[i].code

\* "Ut O" was loaded before "Ut C", and the middle name "Ut" they share, typed
\* in another case, has been resolved to the code of "Ut C"
C19_Witness ==
  /\ stations = <<StationUO, StationUT>>
  /\ answer.op = "code" /\ answer.arg = <<"u", "T">> /\ answer.value = <<"U", "T">>

\* C20: in every state a reader can see, each of the three structures holds
\* what the records of the last load give and nothing else
C20_RebuildReplaces ==
  LET long == {stations[i].namen.lang : i \in Loaded}
      list == {STATIONS_LIST[i] : i \in 1..Len(STATIONS_LIST)}
  IN /\ DOMAIN STATIONS_CACHE = UNION {Variants(stations[i]) : i \in Loaded}
     /\ list = {n \in long : Len(n) > 1}
     /\ \A p \in DOMAIN word_prefix_map : word_prefix_map[p] \subseteq list
     /\ \A n \in list : \A p \in NamePrefixes(n) :
          p \in DOMAIN word_prefix_map /\ n \in word_prefix_map[p]

\* this step is station_autocomplete answering
Completes ==
  /\ answer'.op = "choices"
  /\ \E f \in ReadBy(STATIONS_LIST = <<>>) : StationAutocomplete(answer'.arg, f)

\* the names of a sequence
Range(seq) == {seq[i] : i \in 1..Len(seq)}

\* name contains the input when the case of letters is ignored
ContainsIgnoringCase(name, input) ==
  \E o \in 0..(Len(name) - Len(input)) :
    \A j \in 1..Len(input) : LowerChar[name[o + j]] = LowerChar[input[j]]

\* C23: the facilities an announcement shows are the facilities of the train
\* detail answer, each once, in the order of their first occurrence; removing
\* duplicates from what is shown changes nothing
C23_FacilitiesOnce ==
  \A n \in 1..Len(events) :
    events[n].kind = "detected" =>
      LET f == events[n].info.facilities
          u == events[n].facilities
          first(x) == CHOOSE i \in 1..Len(f) : f[i] = x /\ \A j \in 1..(i - 1) : f[j] # x
      IN /\ {u[i] : i \in 1..Len(u)} = {f[i] : i \in 1..Len(f)}
         /\ \A i, j \in 1..Len(u) : i < j => u[i] # u[j] /\ first(u[i]) < first(u[j])
         /\ FacilitiesUnique(u) = u

\* the answer listed wifi, table, wifi, quiet
C23_Witness ==
  \E n \in 1..Len(events) :
    /\ events[n].kind = "detected"
    /\ events[n].info.facilities = <<"wifi", "table", "wifi", "quiet">>
    /\ events[n].facilities = <<"wifi", "table", "quiet">>

\* C24: the display list holds the long names of more than one character of the
\* filed records of the last load, each once, in ascending order
C24_DisplayList ==
  LET long == {stations[i].namen.lang : i \in Loaded}
  IN /\ {STATIONS_LIST[i] : i \in 1..Len(STATIONS_LIST)} = {n \in long : Len(n) > 1}
     /\ \A i, j \in 1..Len(STATIONS_LIST) : i < j => Less(STATIONS_LIST[i], STATIONS_LIST[j])

\* the whitespace-delimited words of a name: its longest stretches without
\* a space
Words(name) ==
  {SubSeq(name, a, b) : <<a, b>> \in
     {ab \in (1..Len(name)) \X (1..Len(name)) :
        /\ ab[1] <= ab[2]
        /\ \A i \in ab[1]..ab[2] : name[i] # " "
        /\ (ab[1] = 1 \/ name[ab[1] - 1] = " ")
        /\ (ab[2] = Len(name) \/ name[ab[2] + 1] = " ")}}

\* C25: every display name is in the prefix map under every non-empty prefix of
\* every lowercase word of it; every name under a key is a display name with
\* a word that starts with the key; the empty string is no key
C25_PrefixMap ==
  LET list == {STATIONS_LIST[i] : i \in 1..Len(STATIONS_LIST)}
  IN /\ \A N \in list : \A w \in Words(Lower(N)) : \A i \in 1..Len(w) :
          /\ SubSeq(w, 1, i) \in DOMAIN word_prefix_map
          /\ N \in word_prefix_map[SubSeq(w, 1, i)]
     /\ \A p \in DOMAIN word_prefix_map : \A N \in word_prefix_map[p] :
          /\ N \in list
          /\ \E w \in Words(Lower(N)) : Len(p) <= Len(w) /\ SubSeq(w, 1, Len(p)) = p
     /\ <<>> \notin DOMAIN word_prefix_map

\* "Ut C" and "Ut O" are listed: both stand under "ut", "Ut C" alone under "c"
C25_Witness ==
  /\ STATIONS_LIST = << <<"U", "t", " ", "C">>, <<"U", "t", " ", "O">> >>
  /\ word_prefix_map[<<"u", "t">>] = {<<"U", "t", " ", "C">>, <<"U", "t", " ", "O">>}
  /\ word_prefix_map[<<"c">>] = {<<"U", "t", " ", "C">>}

JourneyOf(v) ==
  IF ~v.parsed THEN "J3"
  ELSE IF v.departure_time = 16 THEN "J1"
  ELSE "Sprinter:NS:12:t15"

\* C27: every key the pass computes, every ledger entry and the departure being
\* announced carry the feed's journeyId when the feed gives one, and the
\* concatenation of category, operator, number and planned time only when it
\* gives none
C27_JourneyKey ==
  /\ \A v \in judged : \E i \in 1..Len(config) : v.key = config[i].id \o ":" \o JourneyOf(v)
  /\ \A k \in DOMAIN ledger : \E i \in 1..Len(config) :
       k = config[i].id \o ":" \o
             JourneyOf([parsed |-> TRUE, departure_time |-> ledger[k].departure_time])
  /\ cur.key # "" => cur.journey = (IF cur.train_number = "11" THEN "J1"
                                    ELSE "Sprinter:NS:12:t15")

\* the departure with journeyId "J1" and the one without journeyId have both
\* been claimed for channel 1
C27_Witness ==
  {"1:J1", "1:Sprinter:NS:12:t15"} \subseteq DOMAIN ledger

\* the journey ids the feed's departures get
Journeys == {"J1", "J3", "Sprinter:NS:12:t15"}

\* C28: a departure inside the window is passed over only when the ledger holds
\* the key of this very channel and journey, and is claimed under that key
\* otherwise, whatever entries other channels have for the journey; different
\* pairs of channel and journey have different keys
C28_PairKey ==
  [][/\ chs # <<>> =>
          \A v \in judged' :
            v.admitted =>
              LET k == Head(chs).id \o ":" \o JourneyOf(v)
              IN /\ v.key = k
                 /\ k \in DOMAIN ledger'
                 /\ k \notin DOMAIN ledger => pc' = "enrich" /\ cur'.key = k
     /\ \A i1, i2 \in 1..Len(config) : \A j1, j2 \in Journeys :
          ChannelJourneyId(config[i1].id, j1) = ChannelJourneyId(config[i2].id, j2)
            => config[i1].id = config[i2].id /\ j1 = j2
    ]_vars

\* one pass has claimed the same journey for channel 1 and for channel 2
C28_Witness ==
  /\ {"1:Sprinter:NS:12:t15", "2:Sprinter:NS:12:t15"} \subseteq DOMAIN ledger
  /\ ledger["1:Sprinter:NS:12:t15"].timestamp = ledger["2:Sprinter:NS:12:t15"].timestamp

\* C29: when the work on a claimed departure ends, the channel has got one
\* announcement of it and every mention of it after the announcement; every
\* call made to the channel is about the departure that was claimed in this
\* pass and is being announced
C29_ClaimThenDetected ==
  [][/\ Leaves =>
          LET about(kind) == {i \in 1..Len(events') :
                                /\ events'[i].kind = kind /\ events'[i].ch = Head(chs).id
                                /\ events'[i].journey = cur.journey}
          IN /\ Cardinality(about("detected")) = 1
             /\ \A d \in about("detected") : \A a \in about("alert") : d < a
     /\ events' # events =>
          /\ events' = Append(events, events'[Len(events')])
          /\ events'[Len(events')].ch = Head(chs).id
          /\ events'[Len(events')].journey = cur.journey
          /\ cur.key \in DOMAIN ledger /\ ledger[cur.key].timestamp = now
    ]_vars

\* C30: the train detail request is made only in the step that claims a
\* departure which is inside the window and was not in the ledger, it is made
\* for every such departure the pass reaches, and it is answered once: the
\* next step of the pass leaves the request
C30_EnrichOnlyClaimed ==
  [][/\ pc' = "enrich" =>
          /\ pc # "enrich"
          /\ \E v \in judged' :
               /\ v.key = cur'.key /\ v.parsed /\ v.at = now
               /\ now - v.departure_time <= 30 /\ v.departure_time - now <= 15
               /\ v.key \notin DOMAIN ledger
               /\ v.key \in DOMAIN ledger' /\ ledger'[v.key].timestamp = now
     /\ \A v \in judged' :
          (/\ v.parsed /\ now - v.departure_time <= 30 /\ v.departure_time - now <= 15
           /\ v.key \notin DOMAIN ledger)
            => pc' = "enrich" /\ cur'.key = v.key
     /\ (pc = "enrich" /\ pollVars' # pollVars) => pc' # "enrich"
    ]_vars

\* the request has been made for a claimed departure after the same answer
\* listed a departure that was turned away
C30_Witness ==
  /\ pc = "enrich" /\ cur.key \in DOMAIN ledger
  /\ \E v \in judged : ~v.admitted
  /\ \E v \in judged : v.admitted /\ v.key = cur.key

C32_EntriesInWindow ==
  \A k \in DOMAIN ledger :
    /\ ledger[k].timestamp - ledger[k].departure_time <= 30
    /\ ledger[k].departure_time - ledger[k].timestamp <= 15

\* an entry made exactly 30 seconds after the planned departure is kept while
\* the clock moves on
C32_Witness ==
  \E k \in DOMAIN ledger :
    ledger[k].timestamp - ledger[k].departure_time = 30 /\ clock > ledger[k].timestamp

\* no announcement has been made under ledger key k
Unannounced(evs, k) ==
  \A i \in 1..Len(evs) :
    evs[i].kind = "detected" => evs[i].ch \o ":" \o evs[i].journey # k

\* C33: the entry is in the ledger when the train detail request is made and
\* nothing has been sent yet; an exception in the request or in a send leaves
\* the entry where it is; a departure is claimed only when its key is not in
\* the ledger and announced only while it is the one claimed; and an entry
\* goes only when its departure's window has closed: so the departure of a
\* failed announcement is not announced again
C33_ClaimBeforeEnrich ==
  [][/\ NewClaim =>
          /\ cur'.key \notin DOMAIN ledger /\ cur'.key \in DOMAIN ledger'
          /\ events' = events
     /\ (PassAborts /\ cur.key # "") =>
          /\ cur.key \in DOMAIN ledger' /\ ledger'[cur.key] = ledger[cur.key]
          /\ events' = events
     /\ \A k \in DOMAIN ledger :
          /\ (Unannounced(events, k) /\ ~Unannounced(events', k)) =>
               cur.key = k /\ pc = "enrich"
          /\ k \notin DOMAIN ledger' => clock - ledger[k].departure_time > 30
    ]_vars

\* a later pass finds the entry of a departure whose announcement failed, and
\* passes the departure over
C33_Witness ==
  \E v \in judged :
    /\ v.admitted /\ v.key \in DOMAIN ledger /\ ledger[v.key].timestamp < v.at
    /\ Unannounced(events, v.key) /\ cur.key # v.key

\* C34: the key of a departure is made of the channel and the journey whatever
\* station is being polled, so a departure inside the window is claimed, for
\* the station being polled, when the channel has no entry for its journey,
\* and passed over with the entry left as it is when it has one, also one
\* made for another station of the channel
C34_StationNotInKey ==
  [][chs # <<>> =>
       \A v \in judged' :
         v.admitted =>
           LET k == Head(chs).id \o ":" \o JourneyOf(v)
           IN /\ v.key = k
              /\ IF k \in DOMAIN ledger
                 THEN /\ ~(pc' = "enrich" /\ cur'.key = k)
                      /\ ledger'[k] = ledger[k]
                      /\ events' = events \/ events'[Len(events')].journey # JourneyOf(v)
                 ELSE /\ pc' = "enrich" /\ cur'.key = k
                      /\ cur'.station = Head(sts)]_vars

\* a pass over the two stations of channel 1 has ended: the second station
\* listed a departure the pass had claimed, and it was announced once
C34_Witness ==
  /\ pc = "idle" /\ result = "completed" /\ left = MaxLongAdvances
  /\ \E v \in judged :
       /\ v.admitted /\ v.at = now /\ v.key \in DOMAIN ledger
       /\ ledger[v.key].timestamp = now
       /\ Cardinality(Announcements("1", JourneyOf(v))) = 1

\* C35: every departure a pass examines is judged against the time taken when
\* the pass began, and every entry the pass makes carries that time, however
\* far the clock has moved since; the time does not change during the pass
C35_TickStartTime ==
  [][/\ \A v \in judged' :
          /\ v.at = now'
          /\ v.parsed => (v.admitted <=> WindowAdmits(now', v.departure_time))
     /\ NewClaim => /\ cur'.key \notin DOMAIN ledger
                    /\ ledger'[cur'.key].timestamp = now
     /\ pc # "idle" => now' = now]_vars

\* the clock moved during the pass, and a departure that the window no longer
\* admits at the time it is examined was claimed with the time of the start
C35_Witness ==
  \E v \in judged :
    /\ v.admitted /\ v.at = now /\ clock > now
    /\ ~WindowAdmits(clock, v.departure_time)
    /\ v.key \in DOMAIN ledger /\ ledger[v.key].timestamp = now
    /\ pc = "enrich" /\ cur.key = v.key

\* C36: every name autocomplete offers, from the prefix map as from the scan
\* of the display list, is a name of the display list and contains the input
\* when the case of letters is ignored
C36_ChoicesContainInput ==
  [][Completes =>
       \A i \in 1..Len(answer'.value) :
         /\ answer'.value[i] \in Range(STATIONS_LIST')
         /\ ContainsIgnoringCase(answer'.value[i], answer'.arg)]_vars

\* "o" is a key of the prefix map for the second word of "Ut O", which was
\* offered
C36_Witness ==
  /\ answer.op = "choices" /\ answer.arg = <<"o">>
  /\ <<"o">> \in DOMAIN word_prefix_map
  /\ answer.value = << <<"U", "t", " ", "O">> >>

\* C38: while a departures paginator takes presses, its page is one of its
\* pages, of which there is at least one, the previous button is disabled
\* exactly on the first page and the next button exactly on the last, and
\* neither the page it would show nor the page the message shows holds more
\* than page_size departures
C38_PaginatorBounds ==
  (paginator.built /\ ~paginator.finished) =>
    /\ paginator.total_pages >= 1
    /\ 0 <= paginator.current_page
    /\ paginator.current_page <= paginator.total_pages - 1
    /\ paginator.previous_disabled <=> paginator.current_page = 0
    /\ paginator.next_disabled <=> paginator.current_page = paginator.total_pages - 1
    /\ Len(CurrentDepartures(paginator)) <= paginator.page_size
    /\ Len(CurrentDepartures(paginator)) >= 1
    /\ Len(message.fields) <= paginator.page_size

\* presses led to the last of more than two pages, which is not full
C38_Witness ==
  /\ paginator.built /\ ~paginator.finished
  /\ paginator.total_pages > 2
  /\ paginator.current_page = paginator.total_pages - 1
  /\ paginator.next_disabled /\ ~paginator.previous_disabled
  /\ message.page = paginator.total_pages
  /\ Len(message.fields) < paginator.page_size

\* this step is a step of the board pass
BoardPassStep == <<board_pc, board_todo>>' # <<board_pc, board_todo>>

\* C37: a stop removes the channel's board; a step of a board pass at a
\* channel that has been stopped since does not give the channel a board,
\* does not end the updater loop and goes on with the channels that are left;
\* no channel has two boards
C37_StopIsFinal ==
  [][/\ \A c \in BoardChannels :
          StopDepartureBoard(c) => ~HasBoard(active_departure_boards', c)
     /\ (/\ BoardPassStep /\ board_pc # "idle"
         /\ ~HasBoard(active_departure_boards, board_cur.channel_id))
        => /\ ~HasBoard(active_departure_boards', board_cur.channel_id)
           /\ board_loop' # "dead"
           /\ board_pc' = "idle" => board_todo' = <<>>
     /\ \A i, j \in 1..Len(active_departure_boards') :
          active_departure_boards'[i].channel_id = active_departure_boards'[j].channel_id
            => i = j]_vars

\* the code the directory gives for a station name
CodeOf(name) == Lookup(STATIONS_CACHE, name)

\* C39: no channel holds two alerts for the same train number and the same
\* station code up to case, whoever asked; a request for a train and a station
\* the channel has an alert for is refused and leaves the configuration as
\* it is, whatever name of the station it gives; any other request for a
\* station of the directory adds its alert at the end of the channel's list
C39_NoDuplicateAlert ==
  [][/\ \A c \in 1..Len(config') : \A i, j \in 1..Len(config'[c].alerts) :
          (/\ config'[c].alerts[i].train_number = config'[c].alerts[j].train_number
           /\ UpperName(config'[c].alerts[i].station) = UpperName(config'[c].alerts[j].station))
          => i = j
     /\ answer'.op = "alert" =>
          LET c == answer'.arg[1]
              n == answer'.arg[3]
              code == CodeOf(answer'.arg[4])
              had == \E i \in 1..Len(config) :
                       /\ config[i].id = c
                       /\ \E a \in 1..Len(config[i].alerts) :
                            /\ config[i].alerts[a].train_number = n
                            /\ config[i].alerts[a].station = UpperName(code)
          IN IF code = NotFound THEN answer'.value = "no station" /\ config' = config
             ELSE IF had THEN answer'.value = "already" /\ config' = config
             ELSE /\ answer'.value = "set"
                  /\ ChannelAlerts(config', c) =
                       Append(ChannelAlerts(config, c),
                              [train_number |-> n, station |-> UpperName(code),
                               user_id |-> answer'.arg[2]])]_vars

\* u2 asked in channel 1 for train 11 at "uc" and was refused: the channel
\* holds u1's alert for train 11 at UT after another alert
C39_Witness ==
  /\ answer.op = "alert" /\ answer.value = "already"
  /\ answer.arg = <<"1", "u2", "11", <<"u", "c">>>>
  /\ \E i \in 1..Len(config) :
       /\ config[i].id = "1" /\ Len(config[i].alerts) >= 2
       /\ config[i].alerts[2] = [train_number |-> "11", station |-> <<"U", "T">>,
                                 user_id |-> "u1"]

\* C21: when the lowercased input is a key of the prefix map, autocomplete
\* offers the smallest names of the key's set, at most 25, in ascending order,
\* and offers the same from the same records loaded in another order
C21_PrefixChoices ==
  [][(Completes /\ Lower(answer'.arg) \in DOMAIN word_prefix_map') =>
       LET v == answer'.value
           S == word_prefix_map'[Lower(answer'.arg)]
       IN /\ Len(v) <= 25 /\ Range(v) \subseteq S
          /\ Len(v) = (IF Cardinality(S) < 25 THEN Cardinality(S) ELSE 25)
          /\ \A i, j \in 1..Len(v) : i < j => Less(v[i], v[j])
          /\ \A n \in S \ Range(v) : \A i \in 1..Len(v) : Less(v[i], n)
          /\ \A f \in {Reversed(stations'), Rotated(stations')} :
               Choices(Initialized(<<>>, f), answer'.arg) = v]_vars

\* from 26 names that start with "U", loaded last to first, 25 were offered
C21_Witness ==
  /\ answer.op = "choices" /\ answer.arg = <<"U">> /\ Len(answer.value) = 25
  /\ stations = Reversed(BigFile)
  /\ Cardinality(word_prefix_map[<<"u">>]) > 25

\* C22: when the lowercased input is no key of the prefix map, autocomplete
\* offers the first names of the display list that contain the input ignoring
\* case, in the list's order, 25 at most; no answer has more than 25 names
C22_SubstringChoices ==
  [][Completes =>
       LET v == answer'.value
           at == {i \in 1..Len(STATIONS_LIST') :
                    ContainsIgnoringCase(STATIONS_LIST'[i], answer'.arg)}
       IN /\ Len(v) <= 25
          /\ Lower(answer'.arg) \notin DOMAIN word_prefix_map' =>
               /\ Len(v) = (IF Cardinality(at) < 25 THEN Cardinality(at) ELSE 25)
               /\ \A k \in 1..Len(v) :
                    \E i \in at : /\ Cardinality({j \in at : j <= i}) = k
                                   /\ v[k] = STATIONS_LIST'[i]]_vars

\* the empty input is in all 26 names and 25 were offered; "a" is no key and
\* is in fewer
C22_Witness ==
  /\ answer.op = "choices" /\ answer.arg = <<>> /\ Len(answer.value) = 25
  /\ Len(STATIONS_LIST) > 25
  /\ <<"a">> \notin DOMAIN word_prefix_map

====
